---- MODULE Spec2Model ----
(***************************************************************************)
(* A model of go-debug: the TI-COFF decoder (package coff) and the         *)
(* ELF-then-COFF dispatcher (package debug).                               *)
(*                                                                         *)
(* A byte source is a sequence of bytes (1-based in TLA+, 0-based offsets  *)
(* in the operators below, as in the Go code).  A Go string is the         *)
(* sequence of its bytes.  A Go pointer is a sequence of length 0 (nil)    *)
(* or 1 (the object pointed to).  An error of package coff is a string,    *)
(* "nil" for nil; an error of package debug is a record [type, msg, errs]. *)
(***************************************************************************)
EXTENDS Integers, Sequences, FiniteSets

VARIABLES
    src,        \* the bytes of the file behind the io.ReaderAt
    entry,      \* which function the caller invokes: "debug.Open", "debug.NewFile", "coff.Open"
    pc,         \* "init", "opened" (a file was returned with a nil error), "failed", "panicked"
    elf,        \* what the external debug/elf decoder answered on this source (ElfNotCalled before)
    cf,         \* what coff.NewFile returned, <<>> while it has not been invoked
    file,       \* the *File the entry function returned: <<>> is nil
    err,        \* the error the entry function returned
    handle,     \* the os.File: [opened, closeCalls]
    readAt,     \* the outcome of the last Section.ReadAt, [kind |-> "none"] before
    heap,       \* the io.SectionReader objects allocated so far, by address
    views,      \* the read views handed out by Section.Open: [ref, sec, pos]
    last,       \* the last operation on a view: [op, view, pos, n, data, err]
    gsTable,    \* getString's stringTable argument
    gsName,     \* getString's name argument
    gsResult    \* getString's result, [kind |-> "none"] before the call

vars == <<src, entry, pc, elf, cf, file, err, handle, readAt, heap, views, last,
          gsTable, gsName, gsResult>>

(***************************************************************************)
(* Sizes of the on-disk records: encoding/binary packs the fields of a    *)
(* struct without padding, so binary.Size is the sum of the field widths.  *)
(***************************************************************************)
\* binary.Size(FileHeader): 2+2+4+4+4+2+2+2
FileHeaderSize == 22
\* binary.Size(OptionalFileHeader): 2+2+6*4
OptionalFileHeaderBinSize == 28
\* binary.Size(chars), chars [8]byte
NameSize == 8
\* binary.Size(sectionHeader): 9*4+2+2
SectionHeaderSize == 40
\* binary.Size(symbol): 4+2+2+1+1
SymbolSize == 10
\* binary.Size(AuxiliaryEntry): 4+2+2+10
AuxiliaryEntrySize == 18
\* the stride of the symbol table in the string-table seek
SymbolStride == 18
\* the limit of the reader Section.Open and NewFile build, 1<<63-1 in the code: every
\* offset the model represents is below it, as every int64 offset is below 1<<63-1
MaxOffset == 2147483647
\* uint32 arithmetic is kept in two 16-bit halves
Half == 65536

Zeros(n) == [i \in 1 .. n |-> 0]
Min(a, b) == IF a < b THEN a ELSE b

\* little-endian fields of a record b, at 0-based offset o
LE16(b, o) == b[o + 1] + 256 * b[o + 2]
LE32(b, o) == b[o + 1] + 256 * b[o + 2] + 65536 * b[o + 3] + 16777216 * b[o + 4]

\* s[o:] and s[o:o+n] of a byte slice (0-based, as in Go)
SliceFrom(s, o) == SubSeq(s, o + 1, Len(s))
Slice(s, o, n) == SubSeq(s, o + 1, o + n)

(***************************************************************************)
(* uint32 counters: [hi, lo] stands for hi * 2^16 + lo.                    *)
(***************************************************************************)
U32(n) == [hi |-> (n \div Half) % Half, lo |-> n % Half]
U32IsZero(u) == u.hi = 0 /\ u.lo = 0
\* u - 1 in uint32: 0 - 1 wraps to 0xFFFFFFFF
U32Dec(u) ==
    IF u.lo > 0 THEN [hi |-> u.hi, lo |-> u.lo - 1]
    ELSE IF u.hi > 0 THEN [hi |-> u.hi - 1, lo |-> Half - 1]
    ELSE [hi |-> Half - 1, lo |-> Half - 1]

(***************************************************************************)
(* The byte source: ReadAt of the file, io.ReadFull through the decode     *)
(* pass's SectionReader sr (base 0, limit 1<<63-1), ioutil.ReadAll.        *)
(***************************************************************************)
\* (r io.ReaderAt).ReadAt(p, off) with len(p) = n: the bytes, and io.EOF when short
FileReadAt(b, off, n) ==
    IF off >= Len(b) THEN [data |-> <<>>, err |-> "EOF"]
    ELSE LET got == Min(n, Len(b) - off)
         IN [data |-> Slice(b, off, got), err |-> IF got < n THEN "EOF" ELSE "nil"]

\* binary.Read(sr, binary.LittleEndian, &x) with binary.Size(x) = n, sr at offset off:
\* io.ReadFull gives io.EOF when no byte is left, io.ErrUnexpectedEOF when fewer than n
binaryRead(b, off, n) ==
    LET got == FileReadAt(b, off, n)
    IN IF Len(got.data) = n THEN [err |-> "nil", data |-> got.data, off |-> off + n]
       ELSE IF Len(got.data) = 0 THEN [err |-> "EOF", data |-> <<>>, off |-> off]
       ELSE [err |-> "ErrUnexpectedEOF", data |-> got.data, off |-> off + Len(got.data)]

\* ioutil.ReadAll(sr) with sr at offset off: everything up to the end, never an error
ReadAll(b, off) == IF off >= Len(b) THEN <<>> ELSE SliceFrom(b, off)

(***************************************************************************)
(* getString                                                               *)
(***************************************************************************)
\* bufio.Reader.ReadBytes(delim) on a fresh reader over s: up to and including the first
\* delim, or everything and io.EOF when there is none
RECURSIVE IndexByte(_, _, _)
IndexByte(s, delim, i) ==
    IF i > Len(s) THEN 0
    ELSE IF s[i] = delim THEN i
    ELSE IndexByte(s, delim, i + 1)

ReadBytes(s, delim) ==
    LET k == IndexByte(s, delim, 1)
    IN IF k = 0 THEN [data |-> s, err |-> "EOF"]
       ELSE [data |-> SubSeq(s, 1, k), err |-> "nil"]

\* strings.TrimRight(s, cutset) for a one-byte cutset
TrimRightFirstNul(s, c) ==
    LET k == IndexByte(s, c, 1)
    IN IF k = 0 THEN s ELSE SubSeq(s, 1, k - 1)

RECURSIVE TrimRight(_, _)
TrimRight(s, c) ==
    IF Len(s) > 0 /\ s[Len(s)] = c THEN TrimRight(SubSeq(s, 1, Len(s) - 1), c)
    ELSE s

\* the uint32 offset of a string-table reference: the four bytes are or-ed at disjoint
\* positions, so the or is the sum
NameOffset(name) == name[8] * 16777216 + name[7] * 65536 + name[6] * 256 + name[5]


\* kind "panic": stringTable[offset:] with offset > len(stringTable) is a run-time panic
\* (slice bounds out of range); offset = len(stringTable) is the empty slice
getString(stringTable, name) ==
    IF name[1] = 0 /\ name[2] = 0 /\ name[3] = 0 /\ name[4] = 0
    THEN LET offset == NameOffset(name)
         IN IF offset > Len(stringTable)
            THEN [kind |-> "panic", str |-> <<>>, err |-> "nil"]
            ELSE LET bs == ReadBytes(SliceFrom(stringTable, offset), 0)
                 IN IF bs.err # "nil"
                    THEN [kind |-> "err", str |-> <<>>, err |-> bs.err]
                    ELSE [kind |-> "ok", str |-> SubSeq(bs.data, 1, Len(bs.data) - 1),
                          err |-> "nil"]
    ELSE [kind |-> "ok", str |-> TrimRight(name, 0), err |-> "nil"]

(***************************************************************************)
(* coff.NewFile                                                            *)
(***************************************************************************)
targetIDMap == {151, 152, 153, 156, 157, 160, 161}

IsValidTargetID(header) == header.TargetID \in targetIDMap

DecodeFileHeader(d) ==
    [Version                 |-> LE16(d, 0),
     NumSections             |-> LE16(d, 2),
     Timestamp               |-> LE32(d, 4),
     SymbolTableStartAddress |-> LE32(d, 8),
     NumSymbolTableEntries   |-> LE32(d, 12),
     OptionalFileHeaderSize  |-> LE16(d, 16),
     Flags                   |-> LE16(d, 18),
     TargetID                |-> LE16(d, 20)]

DecodeOptionalFileHeader(d) ==
    [MagicNumber                 |-> LE16(d, 0),
     Version                     |-> LE16(d, 2),
     ExecuteableCodeSize         |-> LE32(d, 4),
     InitializedDataSize         |-> LE32(d, 8),
     UninitializedDataSize       |-> LE32(d, 12),
     EntryPoint                  |-> LE32(d, 16),
     BeginAddressExecutableCode  |-> LE32(d, 20),
     BeginAddressInitializedData |-> LE32(d, 24)]

DecodeSectionHeader(d) ==
    [PhysicalAddress          |-> LE32(d, 0),
     VirtualAddress           |-> LE32(d, 4),
     Size                     |-> LE32(d, 8),
     RawDataAddress           |-> LE32(d, 12),
     RelocationEntriesAddress |-> LE32(d, 16),
     NumRelocationEntries     |-> LE32(d, 24),
     Flags                    |-> LE32(d, 32),
     MemoryPageNumber         |-> LE16(d, 38)]

\* SectionNumber is an int16; the model's inputs keep it non-negative
DecodeSymbol(d) ==
    [Value         |-> LE32(d, 0),
     SectionNumber |-> LE16(d, 4),
     StorageClass  |-> d[9],
     NumAuxEntries |-> d[10]]

DecodeAuxiliaryEntry(d) ==
    [Size                   |-> LE32(d, 0),
     NumRelocationEntries   |-> LE16(d, 4),
     NumOfLineNumberEntries |-> LE16(d, 6)]

\* new(File): the zero value
ZeroFile ==
    [FileHeader         |-> DecodeFileHeader(Zeros(FileHeaderSize)),
     OptionalFileHeader |-> <<>>,
     Sections           |-> <<>>,
     symbols            |-> <<>>,
     closer             |-> "nil"]

\* io.NewSectionReader(r, off, n): a reader over r with its own cursor
NewSectionReader(r, off, n) == [r |-> r, base |-> off, off |-> off, limit |-> off + n]

NilPointers(n) == [k \in 1 .. n |-> <<>>]

(* The operators below bind each value they read once, as the code does with a local
   variable: LET K(x) == ... IN K(read) stands for x := read; .... *)

\* section.SectionHeader = SectionHeader{...}, lines 100-110, and section.sr, line 113; the
\* embedded io.ReaderAt of the Section is left nil
NewSection(name, header, sr) ==
    [Name                     |-> name,
     PhysicalAddress          |-> header.PhysicalAddress,
     VirtualAddress           |-> header.VirtualAddress,
     Size                     |-> header.Size,
     RawDataAddress           |-> header.RawDataAddress,
     RelocationEntriesAddress |-> header.RelocationEntriesAddress,
     NumRelocationEntries     |-> header.NumRelocationEntries,
     Flags                    |-> header.Flags,
     MemoryPageNumber         |-> header.MemoryPageNumber,
     ReaderAt                 |-> <<>>,
     sr                       |-> sr]

\* a variant that reads the optional header only when the declared size covers the record
HasOptionalHeaderBySize(h) == h.OptionalFileHeaderSize >= OptionalFileHeaderBinSize

\* file.OptionalFileHeaderSize > 0, line 57: any non-zero size makes NewFile read the whole
\* 28-byte record
HasOptionalHeader(h) == h.OptionalFileHeaderSize > 0

(* The section-header loop, lines 78-116.  i counts the headers read so far, offset is
   the decode cursor, secs the sections built, hp the section readers allocated (the
   reader of section k is at address k).  On an early return file.Sections keeps its
   nil entries. *)
RECURSIVE ReadSections(_, _, _, _, _, _, _)
ReadSections(b, stringTable, n, i, offset, secs, hp) ==
    LET stop(kind, e) == [kind |-> kind, err |-> e, Sections |-> secs \o NilPointers(n - i),
                          heap |-> hp, off |-> offset]
        Built(header, name) ==
            ReadSections(b, stringTable, n, i + 1, offset + NameSize + SectionHeaderSize,
                         Append(secs, <<NewSection(name, header, Len(hp) + 1)>>),
                         Append(hp, NewSectionReader(0, header.RawDataAddress,
                                                     header.Size)))
        Named(h, nm) ==
            IF nm.kind = "panic" THEN stop("panic", "nil")
            ELSE IF nm.kind = "err" THEN stop("err", nm.err)
            ELSE Built(DecodeSectionHeader(h.data), nm.str)
        HeaderRead(c, h) ==
            IF h.err # "nil" THEN stop("err", h.err)
            ELSE Named(h, getString(stringTable, c.data))
        CharsRead(c) ==
            IF c.err # "nil" THEN stop("err", c.err)
            ELSE HeaderRead(c, binaryRead(b, c.off, SectionHeaderSize))
    IN IF i >= n
       THEN [kind |-> "ok", err |-> "nil", Sections |-> secs, heap |-> hp, off |-> offset]
       ELSE CharsRead(binaryRead(b, offset, NameSize))

\* Symbol{...}, lines 151-158
NewSymbol(name, sym, aux) ==
    [Name           |-> name,
     Value          |-> sym.Value,
     SectionNumber  |-> sym.SectionNumber,
     StorageClass   |-> sym.StorageClass,
     NumAuxEntries  |-> sym.NumAuxEntries,
     AuxiliaryEntry |-> aux]

\* the test of line 141
HasAuxAny(sym) == sym.NumAuxEntries >= 1

HasAux(sym) == sym.NumAuxEntries = 1

(* The symbol loop, lines 119-159.  i is the uint32 loop counter, off the cursor of sr,
   slots the number of 18-byte slots read in full so far. *)
RECURSIVE ReadSymbols(_, _, _, _, _, _)
ReadSymbols(b, stringTable, off, i, symbols, slots) ==
    LET stop(kind, e, k) == [kind |-> kind, err |-> e, symbols |-> symbols, slots |-> k]
        AuxRead(name, sym, a) ==
            IF a.err # "nil" THEN stop("err", a.err, slots + 1)
            ELSE ReadSymbols(b, stringTable, a.off, U32Dec(U32Dec(i)),
                             Append(symbols,
                                    NewSymbol(name, sym, <<DecodeAuxiliaryEntry(a.data)>>)),
                             slots + 2)
        Decoded(s, name, sym) ==
            IF HasAux(sym) THEN AuxRead(name, sym, binaryRead(b, s.off, AuxiliaryEntrySize))
            ELSE ReadSymbols(b, stringTable, s.off, U32Dec(i),
                             Append(symbols, NewSymbol(name, sym, <<>>)), slots + 1)
        Named(s, nm) ==
            IF nm.kind = "panic" THEN stop("panic", "nil", slots + 1)
            ELSE IF nm.kind = "err" THEN stop("err", nm.err, slots + 1)
            ELSE Decoded(s, nm.str, DecodeSymbol(s.data))
        SymRead(c, s) ==
            IF s.err # "nil" THEN stop("err", s.err, slots)
            ELSE Named(s, getString(stringTable, c.data))
        CharsRead(c) ==
            IF c.err # "nil" THEN stop("err", c.err, slots)
            ELSE SymRead(c, binaryRead(b, c.off, SymbolSize))
    IN IF U32IsZero(i)
       THEN [kind |-> "ok", err |-> "nil", symbols |-> symbols, slots |-> slots]
       ELSE CharsRead(binaryRead(b, off, NameSize))

(* coff.NewFile(r), lines 35-162.  The result: kind "ok" (err == nil), "err" or "panic";
   file, the *File returned; heap, the section readers it allocated; and two
   observations of the pass: slots, the symbol-table slots read, and sectionsAt, the
   offset the first section header is read at (-1 when the pass ends before). *)
coffNewFile(b) ==
    LET ret(kind, f, e, hp, k, at) ==
            [kind |-> kind, file |-> f, err |-> e, heap |-> hp, slots |-> k,
             sectionsAt |-> at]
        optZero == DecodeOptionalFileHeader(Zeros(OptionalFileHeaderBinSize))
        SymbolsRead(f, hp, at, ys) ==
            ret(ys.kind, <<[f EXCEPT !.symbols = ys.symbols]>>, ys.err, hp, ys.slots, at)
        SectionsRead(f, stringTable, at, ss) ==
            IF ss.kind # "ok"
            THEN ret(ss.kind, <<[f EXCEPT !.Sections = ss.Sections]>>, ss.err, ss.heap, 0, at)
            ELSE SymbolsRead([f EXCEPT !.Sections = ss.Sections], ss.heap, at,
                             ReadSymbols(b, stringTable,
                                         f.FileHeader.SymbolTableStartAddress,
                                         U32(f.FileHeader.NumSymbolTableEntries), <<>>, 0))
        TableRead(f, offset, stringTable) ==
            SectionsRead(f, stringTable, offset,
                         ReadSections(b, stringTable, f.FileHeader.NumSections, 0, offset,
                                      <<>>, <<>>))
        Headers(f, offset) ==
            TableRead(f, offset,
                      ReadAll(b, f.FileHeader.SymbolTableStartAddress
                                 + f.FileHeader.NumSymbolTableEntries * SymbolStride))
        OptRead(f, o) ==
            IF o.err # "nil"
            THEN ret("err", <<[f EXCEPT !.OptionalFileHeader = <<optZero>>]>>, o.err, <<>>,
                     0, -1)
            ELSE Headers([f EXCEPT !.OptionalFileHeader = <<DecodeOptionalFileHeader(o.data)>>],
                         FileHeaderSize + OptionalFileHeaderBinSize)
        Valid(h, f) ==
            IF ~IsValidTargetID(f.FileHeader)
            THEN ret("err", <<>>, "ErrInvalidTargetID", <<>>, 0, -1)
            ELSE IF HasOptionalHeader(f.FileHeader)
            THEN OptRead(f, binaryRead(b, h.off, OptionalFileHeaderBinSize))
            ELSE Headers(f, FileHeaderSize)
        HeaderRead(h) ==
            IF h.err # "nil" THEN ret("err", <<ZeroFile>>, h.err, <<>>, 0, -1)
            ELSE Valid(h, [ZeroFile EXCEPT !.FileHeader = DecodeFileHeader(h.data)])
    IN HeaderRead(binaryRead(b, 0, FileHeaderSize))

\* (f *File).Symbols() of package coff: never an error
coffSymbols(f) == [symbols |-> f.symbols, err |-> "nil"]

(***************************************************************************)
(* Package debug: errors, the unified File, NewFile                        *)
(***************************************************************************)
NoError == [type |-> "nil", msg |-> "nil", errs |-> <<>>]
PlainError(m) == [type |-> "error", msg |-> m, errs |-> <<>>]
ErrorSlice(es) == [type |-> "ErrorSlice", msg |-> "errors returned", errs |-> es]
\* fmt.Errorf("<pkg>: %v", err)
Errorf(pkg, e) == <<pkg, e>>
\* Errors(err): the list behind an ErrorSlice, or the error alone
Errors(e) == IF e.type = "ErrorSlice" THEN e.errs ELSE <<e.msg>>

\* what the external debug/elf decoder may answer: elf.NewFile's error, the sections of
\* the *elf.File, and what its Symbols() returns
ElfNotCalled == [err |-> "not called", Sections |-> <<>>, symErr |-> "nil", Symbols |-> <<>>]
ElfSection == [Name |-> <<46, 116>>, Addr |-> 4096, Size |-> 16]
ElfSymbol == [Name |-> <<109>>, Value |-> 4100, Size |-> 8]
ElfOutcomes ==
    {[err |-> "ErrFormat", Sections |-> <<>>, symErr |-> "nil", Symbols |-> <<>>],
     [err |-> "nil", Sections |-> <<ElfSection>>, symErr |-> "nil",
      Symbols |-> <<ElfSymbol, ElfSymbol>>],
     [err |-> "nil", Sections |-> <<ElfSection>>, symErr |-> "ErrNoSymbols",
      Symbols |-> <<>>]}

\* &elfSection{section}, &coffSection{section}
elfSection(s) == [type |-> "elfSection", s |-> s]
coffSection(s) == [type |-> "coffSection", s |-> s]
\* the accessors of the Section interface
SectionName(sec) == sec.s[1].Name
SectionAddress(sec) ==
    IF sec.type = "coffSection" THEN sec.s[1].PhysicalAddress ELSE sec.s[1].Addr
SectionSize(sec) == sec.s[1].Size

\* the COFF symbol loop of debug.NewFile, lines 261-268
coffSymbolSizeFromValue(sym) == sym.Value

coffSymbolSize(sym) ==
    IF sym.AuxiliaryEntry # <<>> THEN sym.AuxiliaryEntry[1].Size ELSE 0

AdaptCoffSymbol(sym) == [Name |-> sym.Name, Value |-> sym.Value, Size |-> coffSymbolSize(sym)]
AdaptElfSymbol(sym) == [Name |-> sym.Name, Value |-> sym.Value, Size |-> sym.Size]

UnifiedFile(type, sections, symbols) ==
    [FileType |-> type, Sections |-> sections, Symbols |-> symbols, closer |-> "nil"]

\* the error list of debug.NewFile when both decoders fail, lines 216, 242, 272
BothFailedLastOnly(elfErr, coffErr) == ErrorSlice(<<Errorf("debug/coff", coffErr)>>)

BothFailed(elfErr, coffErr) ==
    ErrorSlice(<<Errorf("debug/elf", elfErr), Errorf("debug/coff", coffErr)>>)

(* debug.NewFile(r), lines 213-276, with e the answer of debug/elf on r.  The result:
   kind "ok" (err == nil), "err" or "panic"; file and err as returned; cf, the result of
   coff.NewFile when it was invoked. *)
debugNewFile(b, e) ==
    LET ret(kind, f, er, c) == [kind |-> kind, file |-> f, err |-> er, cf |-> c]
        ElfSections == [i \in 1 .. Len(e.Sections) |-> elfSection(<<e.Sections[i]>>)]
        ElfSymbols == [i \in 1 .. Len(e.Symbols) |-> AdaptElfSymbol(e.Symbols[i])]
        CoffSymbols(c, sections, syms) ==
            IF syms.err # "nil"
            THEN ret("err", <<UnifiedFile("COFF", sections, <<>>)>>, PlainError(syms.err),
                     <<c>>)
            ELSE ret("ok",
                     <<UnifiedFile("COFF", sections,
                                   [i \in 1 .. Len(syms.symbols) |->
                                       AdaptCoffSymbol(syms.symbols[i])])>>,
                     NoError, <<c>>)
        CoffTried(c) ==
            IF c.kind = "panic" THEN ret("panic", <<>>, NoError, <<c>>)
            ELSE IF c.err = "nil"
            THEN CoffSymbols(c, [i \in 1 .. Len(c.file[1].Sections) |->
                                    coffSection(c.file[1].Sections[i])],
                             coffSymbols(c.file[1]))
            ELSE ret("err", <<>>, BothFailed(e.err, c.err), <<c>>)
    IN IF e.err = "nil"
       THEN IF e.symErr # "nil"
            THEN ret("err", <<UnifiedFile("ELF", ElfSections, <<>>)>>, PlainError(e.symErr),
                     <<>>)
            ELSE ret("ok", <<UnifiedFile("ELF", ElfSections, ElfSymbols)>>, NoError, <<>>)
       ELSE CoffTried(coffNewFile(b))

(***************************************************************************)
(* io.SectionReader: the section readers NewFile builds over the file, and *)
(* the views Section.Open builds over a section reader.  heap maps the     *)
(* address of each reader (1, 2, ...) to [r, base, off, limit]; r is the   *)
(* address of the reader it reads through, 0 for the file itself.          *)
(***************************************************************************)
\* (s *SectionReader).ReadAt(p, off) with len(p) = n, s at address r; at r = 0 the
\* ReadAt of the file
RECURSIVE ReaderReadAt(_, _, _, _, _)
ReaderReadAt(b, hp, r, off, n) ==
    IF r = 0 THEN FileReadAt(b, off, n)
    ELSE LET s == hp[r]
             o == off + s.base
             max == s.limit - o
             short == ReaderReadAt(b, hp, s.r, o, max)
         IN IF off < 0 \/ off >= s.limit - s.base THEN [data |-> <<>>, err |-> "EOF"]
            ELSE IF n > max
            THEN [data |-> short.data, err |-> IF short.err = "nil" THEN "EOF" ELSE short.err]
            ELSE ReaderReadAt(b, hp, s.r, o, n)

\* (s *SectionReader).Read(p) with len(p) = n, on the reader at address a
ReaderRead(b, hp, a, n) ==
    LET s == hp[a]
        got == ReaderReadAt(b, hp, s.r, s.off, Min(n, s.limit - s.off))
    IN IF s.off >= s.limit THEN [heap |-> hp, data |-> <<>>, err |-> "EOF"]
       ELSE [heap |-> [hp EXCEPT ![a].off = s.off + Len(got.data)],
             data |-> got.data, err |-> got.err]

\* (s *SectionReader).Seek(offset, whence) on the reader at address a
ReaderSeek(hp, a, offset, whence) ==
    LET s == hp[a]
        abs == IF whence = "SeekStart" THEN offset + s.base ELSE offset + s.off
    IN IF abs < s.base THEN [heap |-> hp, pos |-> 0, err |-> "errOffset"]
       ELSE [heap |-> [hp EXCEPT ![a].off = abs], pos |-> abs - s.base, err |-> "nil"]

\* (s *Section).Open(), line 283: a new reader over s.sr
SectionOpenShared(hp, s) == [heap |-> hp, ref |-> s.sr]

SectionOpen(hp, s) ==
    [heap |-> Append(hp, NewSectionReader(s.sr, 0, MaxOffset)), ref |-> Len(hp) + 1]

\* (section *coffSection).ReadAt -> (s *coff.Section).ReadAt: the method of the embedded
\* io.ReaderAt, which NewFile never sets; a call through a nil interface panics
SectionReadAt(b, hp, s, off, n) ==
    IF s.ReaderAt = <<>> THEN [kind |-> "panic", data |-> <<>>, err |-> "nil"]
    ELSE LET got == ReaderReadAt(b, hp, s.ReaderAt[1], off, n)
         IN [kind |-> "ok", data |-> got.data, err |-> got.err]

(***************************************************************************)
(* Open and Close of both packages                                         *)
(***************************************************************************)
NoHandle == [opened |-> FALSE, closeCalls |-> 0]
\* os.File.Close is invoked once more
HandleClose(h) == [h EXCEPT !.closeCalls = @ + 1]

\* debug.Open(name), lines 279-293: osOK is whether os.Open succeeded
debugOpen(b, osOK, e) ==
    LET h == [opened |-> TRUE, closeCalls |-> 0]
        Tried(r) ==
            IF r.kind = "panic"
            THEN [pc |-> "panicked", file |-> <<>>, err |-> NoError, handle |-> h,
                  elf |-> e, cf |-> r.cf]
            ELSE IF r.err # NoError
            THEN [pc |-> "failed", file |-> <<>>, err |-> r.err, handle |-> HandleClose(h),
                  elf |-> e, cf |-> r.cf]
            ELSE [pc |-> "opened", file |-> <<[r.file[1] EXCEPT !.closer = "handle"]>>,
                  err |-> NoError, handle |-> h, elf |-> e, cf |-> r.cf]
    IN IF ~osOK
       THEN [pc |-> "failed", file |-> <<>>, err |-> PlainError("os.Open"),
             handle |-> NoHandle, elf |-> ElfNotCalled, cf |-> <<>>]
       ELSE Tried(debugNewFile(b, e))

\* coff.Open(name), lines 180-194
coffOpen(b, osOK) ==
    LET h == [opened |-> TRUE, closeCalls |-> 0]
        Tried(r) ==
            IF r.kind = "panic"
            THEN [pc |-> "panicked", file |-> <<>>, err |-> NoError, handle |-> h,
                  elf |-> ElfNotCalled, cf |-> <<r>>]
            ELSE IF r.err # "nil"
            THEN [pc |-> "failed", file |-> r.file, err |-> PlainError(r.err),
                  handle |-> HandleClose(h), elf |-> ElfNotCalled, cf |-> <<r>>]
            ELSE [pc |-> "opened", file |-> <<[r.file[1] EXCEPT !.closer = "handle"]>>,
                  err |-> NoError, handle |-> h, elf |-> ElfNotCalled, cf |-> <<r>>]
    IN IF ~osOK
       THEN [pc |-> "failed", file |-> <<>>, err |-> PlainError("os.Open"),
             handle |-> NoHandle, elf |-> ElfNotCalled, cf |-> <<>>]
       ELSE Tried(coffNewFile(b))

\* a direct call of debug.NewFile(r): no os.File is involved
debugNewFileCall(b, e) ==
    LET Tried(r) ==
            [pc |-> IF r.kind = "ok" THEN "opened"
                    ELSE IF r.kind = "err" THEN "failed" ELSE "panicked",
             file |-> r.file, err |-> r.err, handle |-> NoHandle, elf |-> e, cf |-> r.cf]
    IN Tried(debugNewFile(b, e))

\* (f *File).Close() of package debug, lines 296-301, and of package coff, lines 200-206
fileClose(f, h) == IF f.closer # "nil" THEN HandleClose(h) ELSE h

\* the coff sections behind the file the entry function returned
OpenedSections ==
    IF file = <<>> THEN <<>>
    ELSE IF entry = "coff.Open" THEN file[1].Sections
    ELSE IF file[1].FileType = "COFF"
    THEN [i \in 1 .. Len(file[1].Sections) |-> file[1].Sections[i].s]
    ELSE <<>>

(***************************************************************************)
(* Bounds                                                                  *)
(***************************************************************************)
\* symbol-table slots in an input file
MaxSlots == 3
\* Close calls on one file
MaxCloses == 3
\* len(p) of a read
MaxRead == 2
\* offsets a view is moved to
MaxPos == 4
\* views opened on one file
MaxViews == 2
\* length of getString's string table
MaxTableLen == 3

(***************************************************************************)
(* Input files, laid out as the decoder reads them                         *)
(***************************************************************************)
Put16(v) == <<v % 256, (v \div 256) % 256>>
Put32(v) == <<v % 256, (v \div 256) % 256, (v \div 65536) % 256, (v \div 16777216) % 256>>

RECURSIVE Concat(_)
Concat(ss) == IF ss = <<>> THEN <<>> ELSE Head(ss) \o Concat(Tail(ss))

NameA == <<65, 0, 0, 0, 0, 0, 0, 0>>
NameRef(k) == <<0, 0, 0, 0, k, 0, 0, 0>>

FileHeaderBytes(nsec, symStart, n, opt, tid) ==
    Put16(194) \o Put16(nsec) \o Put32(0) \o Put32(symStart) \o Put32(n)
    \o Put16(opt) \o Put16(0) \o Put16(tid)

OptionalHeaderBytes == Put16(264) \o Put16(1) \o Put32(6) \o Put32(0) \o Put32(0)
                       \o Put32(32) \o Put32(32) \o Put32(64)

\* a section header: sec is [name, phys, raw, size]
SectionHeaderBytes(sec) ==
    sec.name \o Put32(sec.phys) \o Put32(sec.phys) \o Put32(sec.size) \o Put32(sec.raw)
    \o Zeros(20) \o Put16(0) \o Put16(0)

\* the slot at index k of the symbol table: a primary record with 0, 1 or 2 in its
\* auxiliary count, or an auxiliary record
SlotBytes(kind, name, k) ==
    IF kind = "A" THEN Put32(100 + k) \o Put16(0) \o Put16(0) \o Zeros(10)
    ELSE name \o Put32(k) \o Put16(1) \o Put16(0)
         \o <<2, IF kind = "P0" THEN 0 ELSE IF kind = "P1" THEN 1 ELSE 2>>

SectionData == <<1, 2, 3, 4, 5, 6>>

(* p: tid, opt (OptionalFileHeaderSize), secs (each [name, phys, rel, size], rel being
   the offset of its data in SectionData), slots (kinds), name (the name field of every
   primary record), tail (the bytes after the symbol table: the string table). *)
BuildFile(p) ==
    LET nsec == Len(p.secs)
        dataStart == FileHeaderSize + (IF p.opt > 0 THEN OptionalFileHeaderBinSize ELSE 0)
                     + nsec * (NameSize + SectionHeaderSize)
        data == IF nsec > 0 THEN SectionData ELSE <<>>
        symStart == dataStart + Len(data)
    IN FileHeaderBytes(nsec, symStart, Len(p.slots), p.opt, p.tid)
       \o (IF p.opt > 0 THEN OptionalHeaderBytes ELSE <<>>)
       \o Concat([i \in 1 .. nsec |->
                    SectionHeaderBytes([name |-> p.secs[i].name, phys |-> p.secs[i].phys,
                                        raw |-> dataStart + p.secs[i].rel,
                                        size |-> p.secs[i].size])])
       \o data
       \o Concat([k \in 1 .. Len(p.slots) |-> SlotBytes(p.slots[k], p.name, k)])
       \o p.tail

SlotKinds == {"P0", "P1", "P2", "A"}
Layouts == UNION {[1 .. n -> SlotKinds] : n \in 0 .. MaxSlots}
ShortTail == <<66, 67, 0>>
LongTail == <<66, 67, 0>> \o Zeros(AuxiliaryEntrySize)
Sec(name, rel, size) == [name |-> name, phys |-> 512 + rel, rel |-> rel, size |-> size]

\* every known target and three unknown ones, with and without an optional header
HeaderFiles ==
    {BuildFile([tid |-> t, opt |-> o, secs |-> <<>>, slots |-> <<>>, name |-> NameA,
                tail |-> <<>>]) :
        t \in targetIDMap \cup {0, 150, 162}, o \in {0, OptionalFileHeaderBinSize}}

\* every layout of the symbol table, followed by a short or a long string table
SymbolFiles ==
    {BuildFile([tid |-> 151, opt |-> 0, secs |-> <<>>, slots |-> l, name |-> NameA,
                tail |-> t]) :
        l \in Layouts, t \in {ShortTail, LongTail}}

\* names inline, in the string table, at its end and beyond it
NameFiles ==
    {BuildFile([tid |-> 157, opt |-> o, secs |-> s, slots |-> l, name |-> n,
                tail |-> ShortTail]) :
        o \in {0, OptionalFileHeaderBinSize},
        s \in {<<>>, <<Sec(NameA, 0, 4)>>, <<Sec(NameRef(1), 0, 4), Sec(NameA, 2, 4)>>,
               <<Sec(NameRef(4), 0, 4)>>},
        l \in {<<>>, <<"P0">>, <<"P1", "A", "P0">>},
        n \in {NameA, NameRef(0), NameRef(3), NameRef(4), <<65, 0, 66, 0, 0, 0, 0, 0>>}}

\* one full file cut at every length
FullFile ==
    BuildFile([tid |-> 160, opt |-> OptionalFileHeaderBinSize,
               secs |-> <<Sec(NameRef(0), 1, 3)>>, slots |-> <<"P1", "A", "P0">>,
               name |-> NameA, tail |-> ShortTail])
CutFiles == {SubSeq(FullFile, 1, c) : c \in 0 .. Len(FullFile)}

\* a declared optional-header size that is neither 0 nor the size of the record read
OptionalFiles ==
    {BuildFile([tid |-> 161, opt |-> o, secs |-> s, slots |-> <<"P0">>, name |-> NameA,
                tail |-> ShortTail]) :
        o \in {1, 24}, s \in {<<>>, <<Sec(NameA, 0, 4)>>}}

Inputs == HeaderFiles \cup SymbolFiles \cup NameFiles \cup CutFiles \cup OptionalFiles

(***************************************************************************)
(* The specification of Open, Close and ReadAt                             *)
(***************************************************************************)
NoReadAt == [kind |-> "none", sec |-> 0, off |-> 0, n |-> 0, data |-> <<>>, err |-> "nil"]
NoLast == [op |-> "none", view |-> 0, pos |-> 0, n |-> 0, data |-> <<>>, err |-> "nil"]
NoGetString == [kind |-> "none", str |-> <<>>, err |-> "nil"]

InitCommon ==
    /\ pc = "init"
    /\ elf = ElfNotCalled
    /\ cf = <<>>
    /\ file = <<>>
    /\ err = NoError
    /\ handle = NoHandle
    /\ readAt = NoReadAt
    /\ heap = <<>>
    /\ views = <<>>
    /\ last = NoLast
    /\ gsResult = NoGetString

Init ==
    /\ src \in Inputs
    /\ entry \in {"debug.Open", "debug.NewFile", "coff.Open"}
    /\ gsTable = <<>>
    /\ gsName = NameA
    /\ InitCommon

Returned(r) ==
    /\ pc' = r.pc
    /\ file' = r.file
    /\ err' = r.err
    /\ handle' = r.handle
    /\ elf' = r.elf
    /\ cf' = r.cf
    /\ heap' = IF r.cf = <<>> THEN <<>> ELSE r.cf[1].heap
    /\ UNCHANGED <<src, entry, readAt, views, last, gsTable, gsName, gsResult>>

DebugOpen ==
    /\ pc = "init"
    /\ entry = "debug.Open"
    /\ \E osOK \in BOOLEAN, e \in ElfOutcomes : Returned(debugOpen(src, osOK, e))

DebugNewFile ==
    /\ pc = "init"
    /\ entry = "debug.NewFile"
    /\ \E e \in ElfOutcomes : Returned(debugNewFileCall(src, e))

CoffOpen ==
    /\ pc = "init"
    /\ entry = "coff.Open"
    /\ \E osOK \in BOOLEAN : Returned(coffOpen(src, osOK))

Close ==
    /\ pc = "opened"
    /\ handle.closeCalls < MaxCloses
    /\ handle' = fileClose(file[1], handle)
    /\ UNCHANGED <<src, entry, pc, elf, cf, file, err, readAt, heap, views, last,
                   gsTable, gsName, gsResult>>

ReadAt ==
    /\ pc = "opened"
    /\ \E i \in 1 .. Len(OpenedSections), n \in 1 .. MaxRead, off \in 0 .. MaxPos :
          LET got == SectionReadAt(src, heap, OpenedSections[i][1], off, n)
          IN /\ readAt' = [kind |-> got.kind, sec |-> i, off |-> off, n |-> n,
                           data |-> got.data, err |-> got.err]
             /\ pc' = IF got.kind = "panic" THEN "panicked" ELSE pc
    /\ UNCHANGED <<src, entry, elf, cf, file, err, handle, heap, views, last,
                   gsTable, gsName, gsResult>>

Next == DebugOpen \/ DebugNewFile \/ CoffOpen \/ Close \/ ReadAt

Spec == Init /\ [][Next]_vars

(***************************************************************************)
(* The specification of getString on its own                               *)
(***************************************************************************)
Tables == UNION {[1 .. n -> {0, 65, 66}] : n \in 0 .. MaxTableLen}
NameFields == [1 .. NameSize -> {0, 65}] \cup {NameRef(k) : k \in 0 .. MaxTableLen + 1}

InitGetString ==
    /\ src = <<>>
    /\ entry = "getString"
    /\ gsTable \in Tables
    /\ gsName \in NameFields
    /\ InitCommon

CallGetString ==
    /\ gsResult.kind = "none"
    /\ gsResult' = getString(gsTable, gsName)
    /\ UNCHANGED <<src, entry, pc, elf, cf, file, err, handle, readAt, heap, views, last,
                   gsTable, gsName>>

NextGetString == CallGetString

SpecGetString == InitGetString /\ [][NextGetString]_vars

(***************************************************************************)
(* The specification of the read views of Section.Open                     *)
(*                                                                         *)
(* views[v] is [ref, sec, pos]: the address of the reader Open returned,   *)
(* the section it was opened on, and pos, the position the view has by the *)
(* operations on this view alone.  Seek with io.SeekEnd is left out: the   *)
(* limit of a view is 1<<63-1.                                             *)
(***************************************************************************)
ViewFiles ==
    {BuildFile([tid |-> 153, opt |-> 0, secs |-> s, slots |-> <<"P0">>, name |-> NameA,
                tail |-> ShortTail]) :
        s \in {<<Sec(NameA, 0, 4), Sec(NameA, 2, 4)>>, <<Sec(NameA, 1, 3)>>}}

InitViews ==
    /\ src \in ViewFiles
    /\ entry \in {"debug.Open", "coff.Open"}
    /\ gsTable = <<>>
    /\ gsName = NameA
    /\ InitCommon

\* the bytes of the file in the window of section s, and what a read of n bytes at
\* position pos of the window is to return
Window(b, s) ==
    SubSeq(b, s.RawDataAddress + 1, Min(Len(b), s.RawDataAddress + s.Size))
WindowRead(b, s, pos, n) == SubSeq(Window(b, s), pos + 1, Min(Len(Window(b, s)), pos + n))

OpenView ==
    /\ pc = "opened"
    /\ Len(views) < MaxViews
    /\ \E i \in 1 .. Len(OpenedSections) :
          LET o == SectionOpen(heap, OpenedSections[i][1])
          IN /\ heap' = o.heap
             /\ views' = Append(views, [ref |-> o.ref, sec |-> i, pos |-> 0])
             /\ last' = [op |-> "Open", view |-> Len(views) + 1, pos |-> 0, n |-> 0,
                         data |-> <<>>, err |-> "nil"]
    /\ UNCHANGED <<src, entry, pc, elf, cf, file, err, handle, readAt,
                   gsTable, gsName, gsResult>>

ViewRead ==
    /\ pc = "opened"
    /\ \E v \in 1 .. Len(views), n \in 1 .. MaxRead :
          LET got == ReaderRead(src, heap, views[v].ref, n)
              want == WindowRead(src, OpenedSections[views[v].sec][1], views[v].pos, n)
          IN /\ heap' = got.heap
             /\ views' = [views EXCEPT ![v].pos = @ + Len(want)]
             /\ last' = [op |-> "Read", view |-> v, pos |-> views[v].pos, n |-> n,
                         data |-> got.data, err |-> got.err]
    /\ UNCHANGED <<src, entry, pc, elf, cf, file, err, handle, readAt,
                   gsTable, gsName, gsResult>>

ViewSeek ==
    /\ pc = "opened"
    /\ \E v \in 1 .. Len(views), whence \in {"SeekStart", "SeekCurrent"},
          offset \in -1 .. MaxPos :
          LET got == ReaderSeek(heap, views[v].ref, offset, whence)
              to == IF whence = "SeekStart" THEN offset ELSE views[v].pos + offset
          IN /\ to <= MaxPos
             /\ heap' = got.heap
             /\ views' = [views EXCEPT ![v].pos = IF to < 0 THEN @ ELSE to]
             /\ last' = [op |-> "Seek", view |-> v, pos |-> views[v].pos, n |-> offset,
                         data |-> <<>>, err |-> got.err]
    /\ UNCHANGED <<src, entry, pc, elf, cf, file, err, handle, readAt,
                   gsTable, gsName, gsResult>>

NextViews == DebugOpen \/ CoffOpen \/ OpenView \/ ViewRead \/ ViewSeek

SpecViews == InitViews /\ [][NextViews]_vars

(***************************************************************************)
(* The claims                                                              *)
(***************************************************************************)
ViaDebug == entry \in {"debug.Open", "debug.NewFile"}
ElfCalled == elf.err # "not called"
ElfFailed == ElfCalled /\ elf.err # "nil"

(* C1: whenever elf.NewFile succeeds on the source, debug.NewFile returns a unified file
   with FileType ELF and a nil error, whatever Symbols() of the ELF file returns, and
   coff.NewFile is not invoked. *)
C1_ElfSuccessReturnsElfFile ==
    (pc # "init" /\ ViaDebug /\ ElfCalled /\ elf.err = "nil")
        => /\ cf = <<>>
           /\ err = NoError
           /\ file # <<>>
           /\ file[1].FileType = "ELF"

\* the target-device identifiers the spec lists
KnownTargetIDs == {151, 152, 153, 156, 157, 160, 161}
\* the file header is there in full, with an identifier that is not listed
UnknownTarget == Len(src) >= 22 /\ LE16(src, 20) \notin KnownTargetIDs

(* C2: whenever the ELF decoder and the COFF decoder both fail on the source,
   debug.NewFile returns no file and an error that lists exactly two causes, the ELF
   failure first and the COFF failure second; and the COFF decoder does fail, with the
   invalid-target error, on every source whose header carries an unlisted
   target-device identifier. *)
C2_BothFailTwoCauses ==
    (pc # "init" /\ ViaDebug /\ ElfFailed)
        => /\ cf # <<>>
           /\ UnknownTarget => cf[1].kind = "err" /\ cf[1].err = "ErrInvalidTargetID"
           /\ cf[1].kind = "err"
                 => /\ pc = "failed"
                    /\ file = <<>>
                    /\ err.type = "ErrorSlice"
                    /\ Len(Errors(err)) = 2
                    /\ Errors(err)[1] = <<"debug/elf", elf.err>>
                    /\ Errors(err)[2] = <<"debug/coff", cf[1].err>>

C2_Witness ==
    /\ entry = "debug.Open"
    /\ pc = "failed"
    /\ ElfFailed
    /\ UnknownTarget
    /\ Len(src) = 50
    /\ Errors(err) = <<<<"debug/elf", "ErrFormat">>, <<"debug/coff", "ErrInvalidTargetID">>>>

(* C3: the Close of the os.File behind an Open is invoked exactly once in total: once by
   a failed Open, and at most once however many times Close is called on the file an
   Open returned. *)
C3_HandleClosedOnce ==
    /\ handle.closeCalls <= 1
    /\ (pc = "failed" /\ handle.opened) => handle.closeCalls = 1

(* C4: ReadAt on a section of a file decoded from COFF completes normally and returns
   the bytes of the source at RawDataAddress+off, none of them outside the window of
   the section. *)
C4_ReadAtReturnsWindow ==
    (ViaDebug /\ readAt.kind # "none")
        => /\ readAt.kind = "ok"
           /\ readAt.data = WindowRead(src, OpenedSections[readAt.sec][1], readAt.off,
                                       readAt.n)

\* The symbol table as it lies on disk, read off the bytes of the source: the declared
\* count, slot k (1-based), and the slots that hold primary records when each primary
\* with an auxiliary count of 1 is followed by its auxiliary record.
DeclaredCount == LE32(src, 12)
DiskSlot(k) == Slice(src, LE32(src, 8) + (k - 1) * 18, 18)
DiskAuxCount(k) == DiskSlot(k)[18]
RECURSIVE DiskPrimaries(_)
DiskPrimaries(k) ==
    IF k > DeclaredCount THEN <<>>
    ELSE <<k>> \o DiskPrimaries(IF DiskAuxCount(k) = 1 THEN k + 2 ELSE k + 1)
AuxInsideTable == \A j \in 1 .. Len(DiskPrimaries(1)) :
                      DiskAuxCount(DiskPrimaries(1)[j]) = 1
                          => DiskPrimaries(1)[j] + 1 <= DeclaredCount
DiskAuxOwners == {j \in 1 .. Len(DiskPrimaries(1)) : DiskAuxCount(DiskPrimaries(1)[j]) = 1}
CoffOK == cf # <<>> /\ cf[1].kind = "ok"

(* C5: when every primary record with NumAuxEntries = 1 has its auxiliary record inside
   the N declared slots, a successful coff.NewFile has read exactly N slots and lists
   exactly N - a symbols, a being the number of primaries with NumAuxEntries = 1: the
   primaries in on-disk order, each with an AuxiliaryEntry exactly when its
   NumAuxEntries is 1, that entry being the slot after it. *)
C5_SymbolsArePrimaries ==
    (CoffOK /\ AuxInsideTable)
        => LET syms == cf[1].file[1].symbols
               prim == DiskPrimaries(1)
           IN /\ cf[1].slots = DeclaredCount
              /\ Len(syms) = DeclaredCount - Cardinality(DiskAuxOwners)
              /\ Len(syms) = Len(prim)
              /\ \A j \in 1 .. Len(syms) :
                    /\ syms[j].Value = LE32(DiskSlot(prim[j]), 8)
                    /\ syms[j].NumAuxEntries = DiskAuxCount(prim[j])
                    /\ (syms[j].AuxiliaryEntry # <<>>) <=> (syms[j].NumAuxEntries = 1)
                    /\ syms[j].AuxiliaryEntry # <<>>
                          => syms[j].AuxiliaryEntry[1].Size = LE32(DiskSlot(prim[j] + 1), 0)

C5_Witness ==
    /\ CoffOK
    /\ DeclaredCount = 3
    /\ DiskAuxCount(1) = 1
    /\ cf[1].slots = 3
    /\ Len(cf[1].file[1].symbols) = 2
    /\ cf[1].file[1].symbols[1].AuxiliaryEntry # <<>>
    /\ cf[1].file[1].symbols[2].AuxiliaryEntry = <<>>

\* getString's arguments as the spec reads them: whether the field refers to the string
\* table, the offset it encodes, the index (1-based) of the first NUL at or after that
\* offset (0 when there is none), and the last byte of the field that is not NUL
IsReference == \A i \in 1 .. 4 : gsName[i] = 0
EncodedOffset == gsName[5] + 256 * gsName[6] + 65536 * gsName[7] + 16777216 * gsName[8]
NulsAfterOffset == {k \in 1 .. Len(gsTable) : k > EncodedOffset /\ gsTable[k] = 0}
FirstNul ==
    IF NulsAfterOffset = {} THEN 0
    ELSE CHOOSE k \in NulsAfterOffset : \A j \in NulsAfterOffset : k <= j
LastNonNul ==
    LET nz == {i \in 1 .. 8 : gsName[i] # 0}
    IN IF nz = {} THEN 0 ELSE CHOOSE i \in nz : \A j \in nz : j <= i

(* C6: getString of a field whose bytes 0..3 are zero is the NUL-terminated string at the
   encoded offset of the string table, the terminator left out; of any other field it is
   the 8 bytes of the field less its trailing NUL bytes, embedded NUL bytes kept. *)
C6_GetStringResolves ==
    gsResult.kind # "none"
        => IF IsReference
           THEN FirstNul # 0
                   => /\ gsResult.kind = "ok"
                      /\ gsResult.str = SubSeq(gsTable, EncodedOffset + 1, FirstNul - 1)
           ELSE /\ gsResult.kind = "ok"
                /\ gsResult.str = SubSeq(gsName, 1, LastNonNul)

C6_Witness ==
    /\ gsResult.kind = "ok"
    /\ ~IsReference
    /\ Len(gsResult.str) = 3
    /\ gsResult.str[2] = 0
    /\ gsName[8] = 0

(* C7: for a field whose bytes 0..3 are zero, when the encoded offset is at or beyond the
   end of the string table, or no NUL byte follows it, getString returns an error value
   and no name; it never ends otherwise. *)
C7_BadReferenceIsAnError ==
    (gsResult.kind # "none" /\ IsReference
     /\ (EncodedOffset >= Len(gsTable) \/ FirstNul = 0))
        => gsResult.kind = "err" /\ gsResult.str = <<>>

(* C8: when the ELF decoder fails and coff.NewFile succeeds, debug.NewFile returns a file
   of FileType COFF with the sections and symbols of the COFF decoder, in the same
   order: section i gives the name, physical address and size of COFF section i, symbol
   j the name and value of COFF symbol j, and as Size the Size of its auxiliary entry
   when it has one, 0 otherwise. *)
C8_UnifiedMatchesCoff ==
    (pc # "init" /\ ViaDebug /\ ElfFailed /\ CoffOK)
        => LET c == cf[1].file[1]
           IN /\ pc # "failed"
              /\ err = NoError
              /\ file # <<>>
              /\ file[1].FileType = "COFF"
              /\ Len(file[1].Sections) = Len(c.Sections)
              /\ \A i \in 1 .. Len(c.Sections) :
                    /\ SectionName(file[1].Sections[i]) = c.Sections[i][1].Name
                    /\ SectionAddress(file[1].Sections[i]) = c.Sections[i][1].PhysicalAddress
                    /\ SectionSize(file[1].Sections[i]) = c.Sections[i][1].Size
              /\ Len(file[1].Symbols) = Len(c.symbols)
              /\ \A j \in 1 .. Len(c.symbols) :
                    /\ file[1].Symbols[j].Name = c.symbols[j].Name
                    /\ file[1].Symbols[j].Value = c.symbols[j].Value
                    /\ file[1].Symbols[j].Size =
                          IF c.symbols[j].AuxiliaryEntry = <<>> THEN 0
                          ELSE c.symbols[j].AuxiliaryEntry[1].Size

C8_Witness ==
    /\ entry = "debug.Open"
    /\ pc = "opened"
    /\ ElfFailed
    /\ CoffOK
    /\ file[1].FileType = "COFF"
    /\ Len(file[1].Sections) = 2
    /\ Len(file[1].Symbols) = 2
    /\ file[1].Symbols[1].Size > 0
    /\ file[1].Symbols[2].Size = 0

\* the position of view v as its reader holds it: what Seek(0, io.SeekCurrent) returns
ViewPosition(v) == heap[views[v].ref].off - heap[views[v].ref].base

(* C9: the read views of Section.Open are positioned independently: each view is at the
   position its own Reads and Seeks put it at, whatever was done on the other views, and
   a Read returns the bytes of its section's window at that position. *)
C9_ViewsIndependent ==
    /\ \A v \in 1 .. Len(views) : ViewPosition(v) = views[v].pos
    /\ last.op = "Read"
          => last.data = WindowRead(src, OpenedSections[views[last.view].sec][1],
                                    last.pos, last.n)

\* two views of one section at different positions, the second just read from
C9_Witness ==
    /\ Len(views) = 2
    /\ views[1].sec = views[2].sec
    /\ ViewPosition(1) = 3
    /\ ViewPosition(2) = 1
    /\ last.op = "Read"
    /\ last.view = 2
    /\ Len(last.data) = 1

(* C10: the symbol pass of coff.NewFile never reads more than the N declared slots, and
   when the decode returns without error it has read exactly N. *)
C10_ReadsNoMoreThanDeclared ==
    (cf # <<>> /\ Len(src) >= 22)
        => /\ cf[1].slots <= DeclaredCount
           /\ cf[1].kind = "ok" => cf[1].slots = DeclaredCount

\* the pass of coff.NewFile got as far as the section headers
SectionsReached == cf # <<>> /\ cf[1].sectionsAt # -1
DeclaredOptionalSize == LE16(src, 16)
DeclaredSections == LE16(src, 2)

\* the section headers start at `plain` without an optional header and at `withOpt` with
\* one; the first section built is the record found there; the file has an
\* OptionalFileHeader exactly when the declared size is not 0
SectionsStartAt(plain, withOpt) ==
    /\ SectionsReached
          => LET at == IF DeclaredOptionalSize = 0 THEN plain ELSE withOpt
                 secs == cf[1].file[1].Sections
             IN /\ cf[1].sectionsAt = at
                /\ (Len(secs) > 0 /\ secs[1] # <<>>)
                      => LET h == DecodeSectionHeader(Slice(src, at + 8, 40))
                         IN /\ secs[1][1].PhysicalAddress = h.PhysicalAddress
                            /\ secs[1][1].Size = h.Size
                            /\ secs[1][1].RawDataAddress = h.RawDataAddress
    /\ (cf # <<>> /\ cf[1].file # <<>> /\ Len(src) >= 22)
          => (cf[1].file[1].OptionalFileHeader = <<>> <=> DeclaredOptionalSize = 0)

(* C11: coff.NewFile reads the section headers immediately after the headers: the first
   section header is read at byte offset 22 when OptionalFileHeaderSize is 0 and at byte
   offset 22 + 28 = 50 when it is greater than 0, and OptionalFileHeader is nil exactly
   when OptionalFileHeaderSize is 0. *)
C11_SectionsAfterHeaders == SectionsStartAt(22, 50)

\* the same with the layout constants 20 and 24: offsets 20 and 20 + 24 = 44
C11_SectionsAtTwentyAndFortyFour == SectionsStartAt(20, 44)

\* a decoded file with an optional header and a section, its first section built
C11_Witness ==
    /\ CoffOK
    /\ DeclaredOptionalSize > 0
    /\ DeclaredSections > 0
    /\ cf[1].sectionsAt = 50
    /\ cf[1].file[1].OptionalFileHeader # <<>>
    /\ cf[1].file[1].Sections[1] # <<>>

====
